---- MODULE Spec2Model ----
(***************************************************************************)
(* Model of azure/functions_worker/bindings/meta.py: the Datum tagged      *)
(* union and its wire conversions, the iterable type-annotation matcher,   *)
(* the binding registry lookup and the decode/encode facade.               *)
(*                                                                         *)
(* Python values are records tagged by "py", protobuf messages records     *)
(* tagged by "pb".  The outcome of a call is Return(v) or Raise(exc, msg). *)
(***************************************************************************)
EXTENDS Integers, Sequences, FiniteSets, TLC

VARIABLES
    loaded,       \* 'azure.functions' in sys.modules
    registry,     \* the provider module's registry: binding name -> binding
    resolutions,  \* history: <<name, loaded at the time, binding resolved>>
    op,           \* the operation called last
    args,         \* its inputs
    result        \* its outcome

vars == <<loaded, registry, resolutions, op, args, result>>

\* ------------------------------------------------------------------ bounds

\* Nesting depth of http messages (an http rawBody that is itself http).
MaxDepth == 1
\* Number of type arguments an annotation carries; length of a candidate tuple.
MaxArgs == 2

\* -------------------------------------------------------- Python values

PyStr(s) == [py |-> "str", s |-> s]
PyBytes(s) == [py |-> "bytes", s |-> s]
PyInt(n) == [py |-> "int", n |-> n]
PyBool(b) == [py |-> "bool", b |-> b]
PyDict(f) == [py |-> "dict", items |-> f]
PyNone == [py |-> "NoneType"]

Return(v) == [ok |-> TRUE, ret |-> v]
Raise(exc, msg) == [ok |-> FALSE, exc |-> exc, msg |-> msg]

EmptyMap == [k \in {} |-> ""]

\* Text payloads and string maps (headers, params, query) the inputs draw from.
Texts == {"", "a"}
StrMaps == {EmptyMap, [k \in {"k"} |-> "a"]}

\* ----------------------------------------------------------- wire messages

\* protos.TypedData: a oneof 'data'; "None" is the message with no field set.
TypedData(which, data) == [pb |-> "TypedData", which |-> which, data |-> data]
UnsetTypedData == [pb |-> "TypedData", which |-> "None"]

\* protos.RpcHttp as the host sends it (a request).
RpcHttpRequest(method, url, headers, params, query, rawBody) ==
    [pb |-> "RpcHttp", method |-> method, url |-> url, headers |-> headers,
     params |-> params, query |-> query, rawBody |-> rawBody]

\* protos.RpcHttp as as_proto builds it (a response).
RpcHttpResponse(status_code, headers, body) ==
    [pb |-> "RpcHttp", status_code |-> status_code, headers |-> headers,
     enable_content_negotiation |-> FALSE, body |-> body]

ScalarKinds == {"string", "bytes", "json"}
SupportedKinds == ScalarKinds \cup {"http"}

ScalarTypedDatas == {TypedData(k, [text |-> t]) : k \in ScalarKinds, t \in Texts}

RECURSIVE TypedDatas(_)
TypedDatas(d) ==
    ScalarTypedDatas
    \cup {UnsetTypedData, TypedData("int", [n |-> 0])}
    \cup (IF d = 0 THEN {}
          ELSE {TypedData("http", RpcHttpRequest("GET", "/x", h, p, q, b)) :
                    h \in StrMaps, p \in StrMaps, q \in StrMaps,
                    b \in TypedDatas(d - 1)})

\* -------------------------------------------------------------------- Datum

Datum(value, type) == [py |-> "Datum", value |-> value, type |-> type]

\* {k: Datum(v, 'string') for k, v in m.items()}
StringDatumMap(m) == [k \in DOMAIN m |-> Datum(PyStr(m[k]), "string")]

\* The mapping from_typed_data builds for an http message, given the decoded body.
HttpValueSwapped(http, body) ==
    PyDict([key \in {"method", "url", "headers", "body", "params", "query"} |->
        CASE key = "method" -> Datum(PyStr(http.method), "string")
          [] key = "url" -> Datum(PyStr(http.url), "string")
          [] key = "headers" -> PyDict(StringDatumMap(http.headers))
          [] key = "body" -> body
          [] key = "params" -> PyDict(StringDatumMap(http.query))
          [] key = "query" -> PyDict(StringDatumMap(http.params))])

HttpValue(http, body) ==
    PyDict([key \in {"method", "url", "headers", "body", "params", "query"} |->
        CASE key = "method" -> Datum(PyStr(http.method), "string")
          [] key = "url" -> Datum(PyStr(http.url), "string")
          [] key = "headers" -> PyDict(StringDatumMap(http.headers))
          [] key = "body" -> body
          [] key = "params" -> PyDict(StringDatumMap(http.params))
          [] key = "query" -> PyDict(StringDatumMap(http.query))])

\* td.string / td.json give a str, td.bytes gives bytes.
ScalarField(td) ==
    IF td.which = "bytes" THEN PyBytes(td.data.text) ELSE PyStr(td.data.text)

\* Datum.from_typed_data
RECURSIVE from_typed_data(_)
from_typed_data(td) ==
    LET tt == td.which IN
    IF tt = "http" THEN
        LET body == from_typed_data(td.data.rawBody) IN
        IF body.ok THEN Return(Datum(HttpValue(td.data, body.ret), tt))
        ELSE body
    ELSE IF tt \in ScalarKinds THEN Return(Datum(ScalarField(td), tt))
    ELSE Raise("NotImplementedError", <<"unsupported TypeData kind: ", tt>>)

\* Datum.as_proto with the json branch filling the string field.
as_proto_json_as_string(self) ==
    IF self.type \in ScalarKinds
    THEN Return(TypedData(IF self.type = "json" THEN "string" ELSE self.type,
                          [text |-> self.value.s]))
    ELSE Raise("NotImplementedError", <<"unexpected Datum type: ", self.type>>)

\* Datum.as_proto.  In the http branch the keyword arguments are evaluated in
\* order: self.value['status_code'] first, then the free name 'headers', which
\* no scope of the module binds.
as_proto(self) ==
    IF self.type = "string" THEN Return(TypedData("string", [text |-> self.value.s]))
    ELSE IF self.type = "bytes" THEN Return(TypedData("bytes", [text |-> self.value.s]))
    ELSE IF self.type = "json" THEN Return(TypedData("json", [text |-> self.value.s]))
    ELSE IF self.type = "http" THEN
        IF "status_code" \notin DOMAIN self.value.items
        THEN Raise("KeyError", <<"status_code">>)
        ELSE Raise("NameError", <<"name 'headers' is not defined">>)
    ELSE Raise("NotImplementedError", <<"unexpected Datum type: ", self.type>>)

\* Datum.__eq__
__eq__(self, other) ==
    IF other.py # self.py THEN FALSE
    ELSE self.value = other.value /\ self.type = other.type

\* hash() of a str or bytes payload, 16 bits wide.
TextHash(s) == (Len(s) * 31 + 7) % 65536

\* hash() of a Datum's value: a dict is unhashable.
ValueHash(v) ==
    IF v.py = "dict" THEN Raise("TypeError", <<"unhashable type: ", "dict">>)
    ELSE IF v.py = "int" THEN Return(PyInt(v.n % 65536))
    ELSE Return(PyInt(TextHash(v.s)))

\* Datum.__hash__: hash((type(self), (self.value, self.type)))
__hash__(self) ==
    LET hv == ValueHash(self.value) IN
    IF hv.ok
    THEN Return(PyInt((hv.ret.n * 31 + TextHash(self.type) * 7 + 3) % 65536))
    ELSE hv

\* ------------------------------------------------------- Datum inputs

ScalarDatums ==
    {Datum(PyStr(t), k) : t \in Texts, k \in {"string", "json"}}
    \cup {Datum(PyBytes(t), "bytes") : t \in Texts}

\* http Datums of the request shape: what from_typed_data yields.
RequestDatums ==
    {from_typed_data(td).ret :
        td \in {t \in TypedDatas(MaxDepth) : t.which = "http" /\ from_typed_data(t).ok}}

\* http Datums of the response shape: what as_proto reads.
RECURSIVE ResponseDatums(_)
ResponseDatums(d) ==
    IF d = 0 THEN {}
    ELSE {Datum(PyDict([key \in {"status_code", "headers", "body"} |->
                    CASE key = "status_code" -> Datum(PyStr("200"), "string")
                      [] key = "headers" -> PyDict(StringDatumMap(h))
                      [] key = "body" -> b]), "http") :
              h \in StrMaps, b \in ScalarDatums \cup ResponseDatums(d - 1)}

Datums ==
    ScalarDatums \cup {Datum(PyInt(0), "int")}
    \cup RequestDatums \cup ResponseDatums(MaxDepth)

\* ------------------------------------------------------- Datum operations

EnvUnchanged == UNCHANGED <<loaded, registry, resolutions>>

\* Every operation is synchronous and single-shot: it is called when no call
\* is in progress, and its outcome goes back to the caller.
ReturnToCaller ==
    /\ op # "none"
    /\ op' = "none"
    /\ args' = [none |-> TRUE]
    /\ result' = [none |-> TRUE]
    /\ EnvUnchanged

CallAsProto ==
    \E d \in Datums :
        /\ op = "none"
        /\ op' = "as_proto"
        /\ args' = [self |-> d]
        /\ result' = as_proto(d)
        /\ EnvUnchanged

CallFromTypedData ==
    \E td \in TypedDatas(MaxDepth) :
        /\ op = "none"
        /\ op' = "from_typed_data"
        /\ args' = [td |-> td]
        /\ result' = from_typed_data(td)
        /\ EnvUnchanged

\* Datum.from_typed_data(d.as_proto()): a failure of either call propagates.
CallRoundTrip ==
    \E d \in Datums :
        /\ op = "none"
        /\ op' = "round_trip"
        /\ args' = [self |-> d]
        /\ result' = LET p == as_proto(d) IN
                     IF p.ok THEN from_typed_data(p.ret) ELSE p
        /\ EnvUnchanged

\* a == b, hash(a), hash(b) for two Datums; b is a second construction from
\* a's own (value, type) pair or a Datum of another pair.
CallEqHash ==
    \E a \in Datums :
        \E b \in {Datum(a.value, a.type)} \cup ScalarDatums :
            /\ op = "none"
            /\ op' = "eq_hash"
            /\ args' = [self |-> a, other |-> b]
            /\ result' = [eq |-> __eq__(a, b),
                          hash_self |-> __hash__(a),
                          hash_other |-> __hash__(b)]
            /\ EnvUnchanged

\* ------------------------------------------------------- Datum properties

\* The shape the http kind determines for a Datum's value: the six-key mapping
\* of a request.
HasRequestShape(d) ==
    /\ d.value.py = "dict"
    /\ DOMAIN d.value.items = {"method", "url", "headers", "body", "params", "query"}

\* C1 (as stated): for every supported wire kind, http included, and every
\* value of the shape the kind determines, the round trip
\* Datum.from_typed_data(d.as_proto()) returns a Datum equal to d.
C1_RoundTripEveryKind ==
    (/\ op = "round_trip"
     /\ args.self.type \in SupportedKinds
     /\ (args.self.type = "http" => HasRequestShape(args.self)))
        => (result.ok /\ __eq__(result.ret, args.self))

\* C1 (amended): for the scalar wire kinds string, bytes and json the round
\* trip Datum.from_typed_data(d.as_proto()) returns a Datum equal to d.
C1_RoundTripScalarKinds ==
    (op = "round_trip" /\ args.self.type \in ScalarKinds)
        => (result.ok /\ __eq__(result.ret, args.self)
            /\ __eq__(args.self, result.ret))

C1_Witness ==
    /\ op = "round_trip"
    /\ args.self = Datum(PyBytes("a"), "bytes")
    /\ result.ok
    /\ result.ret = Datum(PyBytes("a"), "bytes")

\* C5: as_proto on an http Datum whose value holds status_code, headers and
\* body succeeds and yields the http message built from that mapping alone,
\* with enable_content_negotiation false.
C5_HttpAsProtoFromOwnValue ==
    (/\ op = "as_proto"
     /\ args.self.type = "http"
     /\ {"status_code", "headers", "body"} \subseteq DOMAIN args.self.value.items)
        => LET v == args.self.value.items
               h == v["headers"].items
               b == as_proto(v["body"])
           IN  /\ result.ok
               /\ b.ok
               /\ result.ret =
                    TypedData("http",
                        RpcHttpResponse(v["status_code"].value.s,
                                        [k \in DOMAIN h |-> h[k].value.s],
                                        b.ret))

\* Whether every nested rawBody of a message is populated with a kind
\* from_typed_data supports.
RECURSIVE Decodable(_)
Decodable(td) ==
    \/ td.which \in ScalarKinds
    \/ (td.which = "http" /\ Decodable(td.data.rawBody))

IsStringDatum(d, text) == d = Datum(PyStr(text), "string")

IsStringDatumMap(m, texts) ==
    /\ m.py = "dict"
    /\ DOMAIN m.items = DOMAIN texts
    /\ \A k \in DOMAIN texts : IsStringDatum(m.items[k], texts[k])

\* The shape C6 describes for the Datum decoded from the http message td.
HttpShape(td, d) ==
    /\ d.py = "Datum"
    /\ d.type = "http"
    /\ d.value.py = "dict"
    /\ DOMAIN d.value.items = {"method", "url", "headers", "body", "params", "query"}
    /\ IsStringDatum(d.value.items["method"], td.data.method)
    /\ IsStringDatum(d.value.items["url"], td.data.url)
    /\ IsStringDatumMap(d.value.items["headers"], td.data.headers)
    /\ IsStringDatumMap(d.value.items["params"], td.data.params)
    /\ IsStringDatumMap(d.value.items["query"], td.data.query)
    /\ from_typed_data(td.data.rawBody).ok
    /\ d.value.items["body"] = from_typed_data(td.data.rawBody).ret

\* C6 (as stated): every message whose populated field is http decodes to an
\* http Datum of the six-key shape.
C6_HttpDecodesEveryMessage ==
    (op = "from_typed_data" /\ args.td.which = "http")
        => (result.ok /\ HttpShape(args.td, result.ret))

\* C6 (amended): a message whose populated field is http decodes to an http
\* Datum of the six-key shape when its nested rawBody is (recursively)
\* populated with a supported kind; otherwise the call raises the
\* unsupported-kind error of the nested decode.
C6_HttpDecodesWhenBodyDecodable ==
    (op = "from_typed_data" /\ args.td.which = "http")
        => IF Decodable(args.td.data.rawBody)
           THEN result.ok /\ HttpShape(args.td, result.ret)
           ELSE ~result.ok /\ result.exc = "NotImplementedError"

C6_Witness ==
    /\ op = "from_typed_data"
    /\ args.td.which = "http"
    /\ args.td.data.params # args.td.data.query
    /\ args.td.data.headers # EmptyMap
    /\ result.ok
    /\ result.ret.value.items["body"] = Datum(PyStr(""), "string")

\* C7: two Datums built from the same (value, type) pair compare equal and
\* hash identically, and whenever two Datums compare equal both hashes
\* exist and agree.
C7_HashConsistentWithEq ==
    (op = "eq_hash")
        => /\ (args.other = Datum(args.self.value, args.self.type) => result.eq)
           /\ (result.eq => /\ result.hash_self.ok
                            /\ result.hash_other.ok
                            /\ result.hash_self.ret = result.hash_other.ret)

\* ------------------------------------------------- type-annotation matcher

\* A class object; a non-class type argument; an annotation as typing_inspect
\* sees it.
PyType(name) == [py |-> "type", name |-> name]
UnionOf(members) == [py |-> "Union", members |-> members]
TypeVarT == [py |-> "TypeVar", name |-> "T"]
Annotation(generic, origin, targs) ==
    [py |-> "annotation", generic |-> generic, origin |-> origin, targs |-> targs]
PyTuple(elems) == [py |-> "tuple", elems |-> elems]

\* The classes each class derives from (itself included).
Bases(name) ==
    CASE name = "bool" -> {"bool", "int", "object"}
      [] name = "int" -> {"int", "object"}
      [] name = "str" -> {"str", "object", "Iterable"}
      [] name = "list" -> {"list", "object", "Iterable"}
      [] name = "dict" -> {"dict", "object", "Iterable"}
      [] name = "Stream" -> {"Stream", "object", "Iterable"}
      [] name = "Box" -> {"Box", "object"}
      [] OTHER -> {name, "object"}

\* typing_inspect.is_generic_type / get_origin / get_args
is_generic_type(annotation) == annotation.generic
get_origin(annotation) == annotation.origin
get_args(annotation) == annotation.targs

\* issubclass(cls, arg): both must be classes.
issubclass(cls, arg) ==
    IF cls.py # "type" THEN Raise("TypeError", <<"issubclass() arg 1 must be a class">>)
    ELSE IF arg.py # "type"
    THEN Raise("TypeError", <<"issubclass() arg 2 must be a class">>)
    ELSE Return(arg.name \in Bases(cls.name))

\* The (t, arg) pairs in the order 'for t in pytype for arg in args' visits them.
CandidatePairs(ts, targs) ==
    [i \in 1..(Len(ts) * Len(targs)) |->
        <<ts[((i - 1) \div Len(targs)) + 1], targs[((i - 1) % Len(targs)) + 1]>>]

\* any(isinstance(t, type) and issubclass(t, arg) for ...): stops at the first
\* true item; an item that raises ends the call.
RECURSIVE AnySubclass(_)
AnySubclass(pairs) ==
    IF pairs = <<>> THEN Return(PyBool(FALSE))
    ELSE LET t == Head(pairs)[1]
             arg == Head(pairs)[2]
         IN  IF t.py # "type" THEN AnySubclass(Tail(pairs))
             ELSE LET r == issubclass(t, arg) IN
                  IF ~r.ok THEN r
                  ELSE IF r.ret THEN Return(PyBool(TRUE))
                  ELSE AnySubclass(Tail(pairs))

\* is_iterable_type_annotation
is_iterable_type_annotation(annotation, pytype) ==
    LET origin_check ==
            IF is_generic_type(annotation)
            THEN issubclass(get_origin(annotation), PyType("Iterable"))
            ELSE Return(FALSE)
    IN  IF ~origin_check.ok THEN origin_check
        ELSE IF ~origin_check.ret THEN Return(PyBool(FALSE))
        ELSE LET targs == get_args(annotation) IN
             IF targs = <<>> THEN Return(PyBool(FALSE))
             ELSE IF pytype.py = "tuple"
             THEN AnySubclass(CandidatePairs(pytype.elems, targs))
             ELSE AnySubclass(CandidatePairs(<<pytype>>, targs))

\* ------------------------------------------------- matcher inputs

SeqsUpTo(S, n) == UNION {[1..k -> S] : k \in 0..n}

TypeArguments ==
    {PyType("int"), PyType("str"), PyType("object"),
     UnionOf({"int", "str"}), TypeVarT}

\* int, Union[int, str]; List, List[X]; Dict, Dict[K, V]; and two user
\* generics, Stream (iterable) and Box (not iterable), with any arguments.
Annotations ==
    {Annotation(FALSE, PyNone, <<>>)}
    \cup {Annotation(TRUE, PyType("list"), a) : a \in SeqsUpTo(TypeArguments, 1)}
    \cup {Annotation(TRUE, PyType("dict"), a) :
              a \in {<<>>} \cup [1..2 -> TypeArguments]}
    \cup {Annotation(TRUE, PyType(o), a) :
              o \in {"Stream", "Box"}, a \in SeqsUpTo(TypeArguments, MaxArgs)}

SingleCandidates ==
    {PyType("int"), PyType("bool"), PyType("str"), PyInt(5), PyNone}

Candidates ==
    SingleCandidates \cup {PyTuple(e) : e \in SeqsUpTo(SingleCandidates, MaxArgs)}

CallIsIterableTypeAnnotation ==
    \E a \in Annotations, c \in Candidates :
        /\ op = "none"
        /\ op' = "is_iterable_type_annotation"
        /\ args' = [annotation |-> a, pytype |-> c]
        /\ result' = is_iterable_type_annotation(a, c)
        /\ EnvUnchanged

\* ------------------------------------------------- matcher properties

\* C8: is_iterable_type_annotation never raises, whatever the annotation and
\* the candidate (or candidate tuple).
C8_MatcherNeverRaises ==
    (op = "is_iterable_type_annotation") => result.ok

\* Subtype as C9 reads it: a class below the argument, or below a member of a
\* union argument.
SubtypeOfArgument(t, arg) ==
    /\ t.py = "type"
    /\ \/ (arg.py = "type" /\ arg.name \in Bases(t.name))
       \/ (arg.py = "Union" /\ arg.members \cap Bases(t.name) # {})

CandidateSet(pytype) ==
    IF pytype.py = "tuple" THEN {pytype.elems[i] : i \in DOMAIN pytype.elems}
    ELSE {pytype}

ArgumentSet(annotation) ==
    {annotation.targs[i] : i \in DOMAIN annotation.targs}

\* C9: the call returns true exactly when the annotation is a parameterized
\* generic with an iterable origin and at least one type argument, and some
\* candidate is a concrete type that is a subtype of some type argument
\* (List[Union[int, str]] with (int,) is true); otherwise it returns false.
C9_MatcherReturnsAnyMatch ==
    (op = "is_iterable_type_annotation")
        => /\ result.ok
           /\ result.ret =
                PyBool(/\ args.annotation.generic
                       /\ args.annotation.origin.py = "type"
                       /\ "Iterable" \in Bases(args.annotation.origin.name)
                       /\ args.annotation.targs # <<>>
                       /\ \E t \in CandidateSet(args.pytype) :
                            \E arg \in ArgumentSet(args.annotation) :
                                SubtypeOfArgument(t, arg))

\* ------------------------------------------------- binding registry lookup

Binding(name) == [py |-> "binding", name |-> name]

\* generic.GenericBinding
GenericBinding == Binding("GenericBinding")

\* The names functions bind under, and the bindings a provider registers.
BindNames == {"http", "queue"}
RegisteredBindings == {Binding("HttpConverter"), Binding("QueueConverter")}

\* The registries a provider module may hold: some names have an entry.
Registries == UNION {[D -> RegisteredBindings] : D \in SUBSET BindNames}

\* get_binding_registry
get_binding_registry ==
    IF loaded THEN PyDict(registry) ELSE PyNone

\* registry.get looking up the key 'http' whatever the name asked for.
RegistryGetWrongKey(reg, bind_name) ==
    IF "http" \in DOMAIN reg.items THEN reg.items["http"] ELSE PyNone

\* registry.get(bind_name)
RegistryGet(reg, bind_name) ==
    IF bind_name \in DOMAIN reg.items THEN reg.items[bind_name] ELSE PyNone

\* get_binding that never consults the registry.
get_binding_always_generic(bind_name) == GenericBinding

\* get_binding
get_binding(bind_name) ==
    LET reg == get_binding_registry
        binding == IF reg # PyNone THEN RegistryGet(reg, bind_name) ELSE PyNone
    IN  IF binding = PyNone THEN GenericBinding ELSE binding

\* What a call adds to the history of resolutions: the name, whether the
\* provider was loaded, the binding, and whether the call checks ("check")
\* or converts ("codec").
Resolved(kind, bind_name, binding) ==
    resolutions \cup {<<kind, bind_name, loaded, binding>>}

\* The external step that imports the provider module, registry populated.
LoadProvider ==
    /\ op = "none"
    /\ ~loaded
    /\ loaded' = TRUE
    /\ \E reg \in Registries : registry' = reg
    /\ UNCHANGED <<resolutions, op, args, result>>

CallGetBinding ==
    \E n \in BindNames :
        /\ op = "none"
        /\ op' = "get_binding"
        /\ args' = [bind_name |-> n]
        /\ result' = Return(get_binding(n))
        /\ resolutions' = Resolved("check", n, get_binding(n))
        /\ UNCHANGED <<loaded, registry>>

\* is_trigger_binding: the answer is the resolved binding's own.
CallIsTriggerBinding ==
    \E n \in BindNames, answer \in BOOLEAN :
        /\ op = "none"
        /\ op' = "is_trigger_binding"
        /\ args' = [bind_name |-> n, binding |-> get_binding(n)]
        /\ result' = Return(PyBool(answer))
        /\ resolutions' = Resolved("check", n, get_binding(n))
        /\ UNCHANGED <<loaded, registry>>

\* check_input_type_annotation
CallCheckInputTypeAnnotation ==
    \E n \in BindNames, answer \in BOOLEAN :
        /\ op = "none"
        /\ op' = "check_input_type_annotation"
        /\ args' = [bind_name |-> n, binding |-> get_binding(n)]
        /\ result' = Return(PyBool(answer))
        /\ resolutions' = Resolved("check", n, get_binding(n))
        /\ UNCHANGED <<loaded, registry>>

\* check_output_type_annotation
CallCheckOutputTypeAnnotation ==
    \E n \in BindNames, answer \in BOOLEAN :
        /\ op = "none"
        /\ op' = "check_output_type_annotation"
        /\ args' = [bind_name |-> n, binding |-> get_binding(n)]
        /\ result' = Return(PyBool(answer))
        /\ resolutions' = Resolved("check", n, get_binding(n))
        /\ UNCHANGED <<loaded, registry>>

\* ------------------------------------------------- decode/encode facade

NotImplementedSignal == Raise("NotImplementedError", <<>>)

\* {k: Datum.from_typed_data(v) for k, v in trigger_metadata.items()}: the
\* first entry that does not decode ends the call.
MetadataDatums(trigger_metadata) ==
    IF trigger_metadata = PyNone
    THEN Raise("AttributeError",
               <<"'NoneType' object has no attribute 'items'">>)
    ELSE LET m == trigger_metadata.items
             bad == {k \in DOMAIN m : ~from_typed_data(m[k]).ok}
         IN  IF bad # {} THEN from_typed_data(m[CHOOSE k \in bad : TRUE])
             ELSE Return(PyDict([k \in DOMAIN m |-> from_typed_data(m[k]).ret]))

\* The TypeError of from_incoming_proto without the binding in its message.
DecodeTypeErrorNoBinding(dt, binding) ==
    Raise("TypeError",
          <<"unable to decode incoming TypedData: ",
            "unsupported combination of TypedData field ", dt>>)

\* The TypeError from_incoming_proto raises: dt is val.WhichOneof('data').
DecodeTypeError(dt, binding) ==
    Raise("TypeError",
          <<"unable to decode incoming TypedData: ",
            "unsupported combination of TypedData field ", dt,
            " and expected binding type ", binding.name>>)

\* from_incoming_proto; decoded is what binding.decode does with the datum.
from_incoming_proto(bind_name, val, trigger_metadata, decoded) ==
    LET binding == get_binding(bind_name)
        datum == from_typed_data(val)
        metadata == MetadataDatums(trigger_metadata)
    IN  IF ~datum.ok THEN datum
        ELSE IF ~metadata.ok THEN metadata
        ELSE IF decoded.ok THEN decoded
        ELSE DecodeTypeError(val.which, binding)

\* The TypeError to_outgoing_proto raises.
EncodeTypeError(binding, obj) ==
    Raise("TypeError",
          <<"unable to encode outgoing TypedData: ", "unsupported type ",
            binding.name, " for Python type ", obj.py>>)

\* to_outgoing_proto; encoded is what binding.encode does with the object.
to_outgoing_proto(bind_name, obj, encoded) ==
    LET binding == get_binding(bind_name) IN
    IF ~encoded.ok THEN EncodeTypeError(binding, obj)
    ELSE as_proto(encoded.ret)

\* ------------------------------------------------- facade inputs

\* Wire values the host sends: every scalar, an unset message, an int, and
\* http requests around each of them.
FacadeWireValues ==
    {td \in TypedDatas(1) :
        td.which = "http" =>
            /\ td.data.headers = EmptyMap
            /\ td.data.params = EmptyMap
            /\ td.data.query = EmptyMap}

\* Trigger metadata: absent, empty, or one entry.
TriggerMetadatas ==
    {PyNone, PyDict(EmptyMap)}
    \cup {PyDict([k \in {"k"} |-> td]) :
              td \in {TypedData("string", [text |-> "a"]), UnsetTypedData}}

\* What a binding's decode does: a native value, or 'not supported'.
DecodeOutcomes == {Return(PyStr("native")), NotImplementedSignal}

\* What a binding's encode does: a Datum, or 'not supported'.
EncodeOutcomes ==
    {Return(d) : d \in {Datum(PyStr("a"), "string"), Datum(PyBytes("a"), "bytes"),
                        Datum(PyInt(0), "int")}
                       \cup ResponseDatums(1)}
    \cup {NotImplementedSignal}

CallFromIncomingProto ==
    \E n \in BindNames, val \in FacadeWireValues,
       md \in TriggerMetadatas, decoded \in DecodeOutcomes :
        /\ op = "none"
        /\ op' = "from_incoming_proto"
        /\ args' = [bind_name |-> n, val |-> val, trigger_metadata |-> md,
                    decoded |-> decoded]
        /\ result' = from_incoming_proto(n, val, md, decoded)
        /\ resolutions' = Resolved("codec", n, get_binding(n))
        /\ UNCHANGED <<loaded, registry>>

CallToOutgoingProto ==
    \E n \in BindNames, obj \in {PyStr("a"), PyInt(5)},
       encoded \in EncodeOutcomes :
        /\ op = "none"
        /\ op' = "to_outgoing_proto"
        /\ args' = [bind_name |-> n, obj |-> obj, encoded |-> encoded]
        /\ result' = to_outgoing_proto(n, obj, encoded)
        /\ resolutions' = Resolved("codec", n, get_binding(n))
        /\ UNCHANGED <<loaded, registry>>

\* ------------------------------------------------- binding and facade properties

\* C2: a call of from_incoming_proto or to_outgoing_proto either returns the
\* converted value or raises a TypeError; no other failure reaches the caller.
C2_FacadeReturnsOrTypeError ==
    (op \in {"from_incoming_proto", "to_outgoing_proto"})
        => (result.ok \/ result.exc = "TypeError")

\* The binding the environment holds for a name: the registry's entry when the
\* provider is loaded and has one, the generic fallback otherwise.
EntryOrFallback(isLoaded, bind_name) ==
    IF isLoaded /\ bind_name \in DOMAIN registry
    THEN registry[bind_name]
    ELSE GenericBinding

Contains(msg, part) == \E i \in DOMAIN msg : msg[i] = part

\* Whether from_incoming_proto with these inputs gets as far as binding.decode.
ReachesDecode(val, trigger_metadata) ==
    /\ Decodable(val)
    /\ trigger_metadata # PyNone
    /\ \A k \in DOMAIN trigger_metadata.items :
            Decodable(trigger_metadata.items[k])

\* C3: when the resolved binding's decode signals 'not supported',
\* from_incoming_proto raises a TypeError whose message contains the wire-kind
\* tag of the field populated in the incoming value and the binding's name.
C3_DeclinedDecodeNamesKindAndBinding ==
    (/\ op = "from_incoming_proto"
     /\ ReachesDecode(args.val, args.trigger_metadata)
     /\ args.decoded = NotImplementedSignal)
        => /\ ~result.ok
           /\ result.exc = "TypeError"
           /\ Contains(result.msg, args.val.which)
           /\ Contains(result.msg, EntryOrFallback(loaded, args.bind_name).name)

C3_Witness ==
    /\ op = "from_incoming_proto"
    /\ loaded
    /\ args.bind_name \in DOMAIN registry
    /\ args.val.which = "http"
    /\ args.trigger_metadata # PyDict(EmptyMap)
    /\ ReachesDecode(args.val, args.trigger_metadata)
    /\ args.decoded = NotImplementedSignal
    /\ ~result.ok

\* C4: get_binding never raises; it returns the generic fallback when no
\* registry is loaded or the registry has no entry for the name, and the
\* registry's entry otherwise.
C4_GetBindingEntryOrFallback ==
    (op = "get_binding")
        => /\ result.ok
           /\ result.ret.py = "binding"
           /\ result.ret =
                IF ~loaded \/ args.bind_name \notin DOMAIN registry
                THEN GenericBinding
                ELSE registry[args.bind_name]

C4_Witness ==
    /\ op = "get_binding"
    /\ loaded
    /\ DOMAIN registry # {}
    /\ args.bind_name \notin DOMAIN registry
    /\ result = Return(GenericBinding)

\* C10 (as stated): for a fixed name every resolution yields the same binding,
\* however the calls interleave with the step that loads the provider.
C10_ResolutionStable ==
    \A r1 \in resolutions : \A r2 \in resolutions :
        r1[2] = r2[2] => r1[4] = r2[4]

\* C10 (amended): for a fixed name, every resolution made before the provider
\* is loaded yields the generic fallback, and every resolution made after it
\* is loaded yields one and the same binding (the registry's entry, or the
\* fallback when it has none); so the binding that checked a name's annotation
\* is the binding that converts its values whenever the load step does not
\* fall between the two calls.
C10_ResolutionStableBetweenLoads ==
    /\ \A r1 \in resolutions : \A r2 \in resolutions :
            (r1[2] = r2[2] /\ r1[3] = r2[3]) => r1[4] = r2[4]
    /\ \A r \in resolutions : r[4] = EntryOrFallback(r[3], r[2])

C10_Witness ==
    \E n \in BindNames :
        /\ op = "from_incoming_proto"
        /\ args.bind_name = n
        /\ <<"check", n, FALSE, GenericBinding>> \in resolutions
        /\ <<"check", n, TRUE, Binding("HttpConverter")>> \in resolutions
        /\ <<"codec", n, TRUE, Binding("HttpConverter")>> \in resolutions

\* ------------------------------------------------------- specifications

InitIdle ==
    /\ loaded = FALSE
    /\ registry = [n \in {} |-> "None"]
    /\ resolutions = {}
    /\ op = "none"
    /\ args = [none |-> TRUE]
    /\ result = [none |-> TRUE]

NextDatum ==
    CallAsProto \/ CallFromTypedData \/ CallRoundTrip \/ CallEqHash \/ ReturnToCaller

SpecDatum == InitIdle /\ [][NextDatum]_vars

NextMatcher == CallIsIterableTypeAnnotation \/ ReturnToCaller

SpecMatcher == InitIdle /\ [][NextMatcher]_vars

Next ==
    \/ LoadProvider
    \/ CallGetBinding
    \/ CallIsTriggerBinding
    \/ CallCheckInputTypeAnnotation
    \/ CallCheckOutputTypeAnnotation
    \/ CallFromIncomingProto
    \/ CallToOutgoingProto
    \/ ReturnToCaller

Spec == InitIdle /\ [][Next]_vars

====
